---- MODULE Spec2Model ----
(***************************************************************************)
(* A model of two utility modules:                                         *)
(*   - onnxblock/_graph_utils.py: build_gradient_graph and                  *)
(*     build_gradient_accumulation_graph, which rewrite the input, output,  *)
(*     initializer and node lists of an ONNX graph;                         *)
(*   - benchmark_autosuggest_LM/model/model_runner.py:                      *)
(*     ModelRunner.process_results, which turns beam-search output into     *)
(*     de-duplicated suggestion texts.                                       *)
(* Names and texts are sequences of one-character strings, so that prefix   *)
(* tests (isdigit), suffixes ("_grad") and concatenation are computed.      *)
(***************************************************************************)
EXTENDS Integers, Sequences, FiniteSets

VARIABLES
    pc,                                 \* "start", "done" or "raised"
    grad_model,                         \* build_gradient_accumulation_graph: grad_model.graph
    grad_model_pre,                     \* grad_model.graph as it was at the call
    all_args_requiring_gradient_names,  \* build_gradient_accumulation_graph's second argument
    model,                              \* build_gradient_graph: accessor.model.graph
    model_pre,                          \* accessor.model.graph as it was at the call
    eval_model,                         \* accessor.eval_model
    user_args_requiring_grad,
    user_args_not_requiring_grad,
    output_names,
    builder_args,                       \* the arguments GradientGraphBuilder was constructed with
    ret,                                \* build_gradient_graph's return value
    output_ids,                         \* process_results: [dim, data]
    output_probs,
    last_complete_word_position,
    returns,
    returns_probs

vars == <<pc, grad_model, grad_model_pre, all_args_requiring_gradient_names,
          model, model_pre, eval_model, user_args_requiring_grad,
          user_args_not_requiring_grad, output_names, builder_args, ret,
          output_ids, output_probs, last_complete_word_position,
          returns, returns_probs>>

accum_vars == <<grad_model, grad_model_pre, all_args_requiring_gradient_names>>

grad_vars == <<model, model_pre, eval_model, user_args_requiring_grad,
               user_args_not_requiring_grad, output_names, builder_args, ret>>

process_vars == <<output_ids, output_probs, last_complete_word_position,
                  returns, returns_probs>>

\* Python's None, where a record is expected.
None == [none |-> TRUE]

\* Sequences of length 0..n over S.
SeqUpTo(S, n) == UNION {[1..k -> S] : k \in 0..n}

(***************************************************************************)
(* Names                                                                   *)
(***************************************************************************)
lazy_reset_grad_input_name ==
    <<"l","a","z","y","_","r","e","s","e","t","_","g","r","a","d">>

gradient_output_suffix == <<"_","g","r","a","d">>

gradient_accumulation_name == <<"a","c","c","u","m","u","l","a","t","i","o","n">>

gradient_buffer_name_suffix == <<"b","u","f","f","e","r">>

gradient_output_name_suffix == <<"o","u","t">>

Dot == <<".">>

NameW == <<"f","c","1",".","w">>

NameB == <<"b">>

NameX == <<"x">>

NameLoss == <<"l","o","s","s">>

NameLazyReset == <<"l","a","z","y","_","r","e","s","e","t">>

NameConst == <<"1","c">>

NameEmpty == <<>>

ValueInfo(name, elem_type, shape) ==
    [name |-> name, elem_type |-> elem_type, shape |-> shape]

(***************************************************************************)
(* build_gradient_accumulation_graph                                       *)
(***************************************************************************)
GradientOutputNames(arg_names) ==
    {arg_name \o gradient_output_suffix : arg_name \in arg_names}

GradAccumulationBufferName(grad_name) ==
    grad_name \o Dot \o gradient_accumulation_name \o Dot \o gradient_buffer_name_suffix

GradAccumulationOutputNameRaw(grad_name) == grad_name

GradAccumulationOutputName(grad_name) ==
    grad_name \o Dot \o gradient_accumulation_name \o Dot \o gradient_output_name_suffix

AccNodeSwapped(grad_name, idx) ==
    [op_type |-> "InPlaceAccumulator",
     input   |-> <<grad_name, GradAccumulationBufferName(grad_name),
                   lazy_reset_grad_input_name>>,
     output  |-> <<GradAccumulationOutputName(grad_name)>>,
     name    |-> <<"GradientAccumulator", idx>>,
     domain  |-> "com.microsoft"]

\* onnx.helper.make_node(...) of the accumulator of gradient grad_name, found
\* at (0-based) position idx of the graph outputs.
AccNode(grad_name, idx) ==
    [op_type |-> "InPlaceAccumulator",
     input   |-> <<GradAccumulationBufferName(grad_name), grad_name,
                   lazy_reset_grad_input_name>>,
     output  |-> <<GradAccumulationOutputName(grad_name)>>,
     name    |-> <<"GradientAccumulator", idx>>,
     domain  |-> "com.microsoft"]

\* copy.deepcopy(graph_output) with its name replaced.
Renamed(value_info, new_name) == [value_info EXCEPT !.name = new_name]

\* The loop over enumerate(grad_model.graph.output), from 1-based position k
\* on; g carries graph.input, graph.node and the local list graph_outputs.
RECURSIVE AccumulationLoop(_, _, _, _)
AccumulationLoop(outputs, k, gradient_output_names, g) ==
    IF k > Len(outputs) THEN g
    ELSE LET graph_output == outputs[k]
             grad_name == graph_output.name
         IN  IF grad_name \notin gradient_output_names
             THEN AccumulationLoop(outputs, k + 1, gradient_output_names,
                      [g EXCEPT !.output = Append(@, graph_output)])
             ELSE AccumulationLoop(outputs, k + 1, gradient_output_names,
                      [input  |-> Append(g.input,
                                      Renamed(graph_output,
                                              GradAccumulationBufferName(grad_name))),
                       node   |-> Append(g.node, AccNode(grad_name, k - 1)),
                       output |-> Append(g.output,
                                      Renamed(graph_output,
                                              GradAccumulationOutputName(grad_name)))])

LazyResetGradInput == ValueInfo(lazy_reset_grad_input_name, "BOOL", <<1>>)

AppendLazyResetGradIfAny(graph_inputs, before) ==
    IF Len(graph_inputs) > Len(before) THEN Append(graph_inputs, LazyResetGradInput)
    ELSE graph_inputs

\* graph_inputs.append(lazy_reset_grad_input); before is graph.input at the call.
AppendLazyResetGrad(graph_inputs, before) == Append(graph_inputs, LazyResetGradInput)

AccumulationGraph(g, arg_names) ==
    LET looped == AccumulationLoop(g.output, 1, GradientOutputNames(arg_names),
                                   [input |-> g.input, node |-> g.node, output |-> <<>>])
    IN  [input  |-> AppendLazyResetGrad(looped.input, g.input),
         node   |-> looped.node,
         output |-> looped.output]

BuildGradientAccumulationGraph ==
    /\ pc = "start"
    /\ grad_model' = AccumulationGraph(grad_model, all_args_requiring_gradient_names)
    /\ pc' = "done"
    /\ UNCHANGED <<grad_model_pre, all_args_requiring_gradient_names>>
    /\ UNCHANGED grad_vars
    /\ UNCHANGED process_vars

\* Inputs of build_gradient_accumulation_graph.
MaxOutputs == 3

OutputInfos ==
    {ValueInfo(NameLoss, "FLOAT", <<>>),
     ValueInfo(NameW \o gradient_output_suffix, "FLOAT", <<2>>),
     ValueInfo(NameB \o gradient_output_suffix, "FLOAT", <<1>>),
     ValueInfo(GradAccumulationOutputName(NameW \o gradient_output_suffix), "FLOAT", <<2>>),
     ValueInfo(lazy_reset_grad_input_name, "BOOL", <<1>>)}

AccumArgNames == {NameW, NameB, NameLazyReset}

InputLists ==
    {<<>>,
     <<ValueInfo(NameX, "FLOAT", <<2>>)>>,
     <<ValueInfo(NameX, "FLOAT", <<2>>), LazyResetGradInput>>}

GemmNode ==
    [op_type |-> "Gemm", input |-> <<NameX, NameW, NameB>>, output |-> <<NameLoss>>,
     name |-> <<"Gemm", 0>>, domain |-> ""]

NodeLists ==
    {<<>>, <<GemmNode>>, <<GemmNode, AccNode(NameW \o gradient_output_suffix, 0)>>}

AccumIdle ==
    /\ grad_model = None
    /\ grad_model_pre = None
    /\ all_args_requiring_gradient_names = {}

GradIdle ==
    /\ model = None
    /\ model_pre = None
    /\ eval_model = None
    /\ user_args_requiring_grad = {}
    /\ user_args_not_requiring_grad = {}
    /\ output_names = <<>>
    /\ builder_args = None
    /\ ret = {}

ProcessIdle ==
    /\ output_ids = [dim |-> 3, data |-> <<>>]
    /\ output_probs = <<>>
    /\ last_complete_word_position = 0
    /\ returns = <<>>
    /\ returns_probs = <<>>

InitAccum ==
    /\ pc = "start"
    /\ \E i \in InputLists, n \in NodeLists, o \in SeqUpTo(OutputInfos, MaxOutputs) :
           grad_model = [input |-> i, node |-> n, output |-> o]
    /\ grad_model_pre = grad_model
    /\ all_args_requiring_gradient_names \in SUBSET AccumArgNames
    /\ GradIdle
    /\ ProcessIdle

NextAccum == BuildGradientAccumulationGraph

SpecAccum == InitAccum /\ [][NextAccum]_vars

(***************************************************************************)
(* build_gradient_graph                                                    *)
(***************************************************************************)
Digits == {"0","1","2","3","4","5","6","7","8","9"}

ContainsDigit(name) == \E k \in 1..Len(name) : name[k] \in Digits

\* initializer.name[0].isdigit(), of a non-empty name.
BeginsWithDigit(name) == name[1] \in Digits

RequiresGradientAlways(name, not_requiring_grad) == TRUE

\* initializer.name not in user_args_not_requiring_grad
RequiresGradient(name, not_requiring_grad) == name \notin not_requiring_grad

\* The loop over model.graph.initializer, from position k on.  st carries
\* graph.input, the local list initializers (kept), the set
\* all_args_requiring_gradient (args) and whether name[0] raised IndexError.
RECURSIVE InitializerLoop(_, _, _, _)
InitializerLoop(graph_initializers, k, not_requiring_grad, st) ==
    IF k > Len(graph_initializers) THEN st
    ELSE LET initializer == graph_initializers[k]
         IN  IF initializer.name = <<>>
             THEN [st EXCEPT !.raised = TRUE]
             ELSE IF ~BeginsWithDigit(initializer.name)
             THEN InitializerLoop(graph_initializers, k + 1, not_requiring_grad,
                      [st EXCEPT
                         !.input = Append(@, ValueInfo(initializer.name,
                                                       initializer.data_type,
                                                       initializer.dims)),
                         !.args = IF RequiresGradient(initializer.name, not_requiring_grad)
                                  THEN @ \cup {initializer.name}
                                  ELSE @])
             ELSE InitializerLoop(graph_initializers, k + 1, not_requiring_grad,
                      [st EXCEPT !.kept = Append(@, initializer)])

\* if isinstance(output_names, str): output_names = [output_names]
OutputNamesList(names) == IF names.is_str THEN <<names.value>> ELSE names.value

SeqToSet(seq) == {seq[k] : k \in 1..Len(seq)}

BuildGradientGraph ==
    /\ pc = "start"
    /\ LET st == InitializerLoop(model.initializer, 1, user_args_not_requiring_grad,
                     [input |-> model.input, kept |-> <<>>, args |-> {},
                      raised |-> FALSE])
           eval == [input |-> st.input, initializer |-> st.kept]
           all_args_requiring_gradient == st.args \cup user_args_requiring_grad
           names == OutputNamesList(output_names)
       IN  IF st.raised
           THEN \* IndexError at line 50: the inputs appended so far stay
                /\ model' = [model EXCEPT !.input = st.input]
                /\ pc' = "raised"
                /\ UNCHANGED <<eval_model, builder_args, ret>>
           ELSE /\ eval_model' = eval
                /\ IF names = <<>>
                   THEN \* IndexError at output_names[0]
                        /\ model' = eval
                        /\ pc' = "raised"
                        /\ UNCHANGED <<builder_args, ret>>
                   ELSE /\ builder_args' = [outputs |-> SeqToSet(names),
                                            args |-> all_args_requiring_gradient,
                                            loss |-> names[1]]
                        /\ \E built \in BOOLEAN :
                               IF built
                               THEN \* model.graph.CopyFrom(gradient_model.graph):
                                    \* the builder's graph, known here only by
                                    \* what it was built from
                                    /\ model' = [gradient_of |-> eval,
                                                 wrt |-> all_args_requiring_gradient]
                                    /\ ret' = all_args_requiring_gradient
                                    /\ pc' = "done"
                               ELSE \* builder.build() raised
                                    /\ model' = eval
                                    /\ pc' = "raised"
                                    /\ UNCHANGED ret
    /\ UNCHANGED <<model_pre, user_args_requiring_grad, user_args_not_requiring_grad,
                   output_names>>
    /\ UNCHANGED accum_vars
    /\ UNCHANGED process_vars

\* Inputs of build_gradient_graph.
MaxInitializers == 3

Tensor(name, data_type, dims) == [name |-> name, data_type |-> data_type, dims |-> dims]

Initializers ==
    {Tensor(NameW, "FLOAT", <<2>>),
     Tensor(NameB, "FLOAT", <<1>>),
     Tensor(NameConst, "INT64", <<>>),
     Tensor(NameEmpty, "FLOAT", <<>>)}

OutputNamesArgs ==
    {[is_str |-> TRUE, value |-> NameLoss],
     [is_str |-> FALSE, value |-> <<NameLoss>>],
     [is_str |-> FALSE, value |-> <<>>]}

InitGrad ==
    /\ pc = "start"
    /\ \E i \in {<<>>, <<ValueInfo(NameX, "FLOAT", <<2>>)>>},
          t \in SeqUpTo(Initializers, MaxInitializers) :
           model = [input |-> i, initializer |-> t]
    /\ model_pre = model
    /\ eval_model = None
    /\ user_args_requiring_grad \in SUBSET {NameX, NameW, NameConst}
    /\ user_args_not_requiring_grad \in SUBSET {NameW, NameB}
    /\ output_names \in OutputNamesArgs
    /\ builder_args = None
    /\ ret = {}
    /\ AccumIdle
    /\ ProcessIdle

NextGrad == BuildGradientGraph

SpecGrad == InitGrad /\ [][NextGrad]_vars

(***************************************************************************)
(* ModelRunner.process_results                                             *)
(***************************************************************************)
\* The tokenizer argument: its EOS id and, per token id, the text it decodes to.
Tokenizer ==
    [eos_token_id |-> 0,
     vocab |-> [t \in 0..2 |-> CASE t = 0 -> <<"<","e","o","s",">">>
                                 [] t = 1 -> <<"a">>
                                 [] t = 2 -> <<" ">>]]

\* tokenizer.decode(ids): the tokens' texts, concatenated.
RECURSIVE Decode(_)
Decode(ids) ==
    IF ids = <<>> THEN <<>> ELSE Tokenizer.vocab[Head(ids)] \o Decode(Tail(ids))

Whitespace == {" ", "\t", "\n"}

\* str.rstrip()
RECURSIVE RStrip(_)
RStrip(text) ==
    IF text # <<>> /\ text[Len(text)] \in Whitespace
    THEN RStrip(SubSeq(text, 1, Len(text) - 1))
    ELSE text

\* if output_ids.dim() == 2: output_ids = output_ids[:, None]
Unsqueeze(ids) ==
    IF ids.dim = 2 THEN [i \in 1..Len(ids.data) |-> <<ids.data[i]>>] ELSE ids.data

\* for k in range(len(output_ij)): if output_ij[k] == eos: cut, break
\* (k is the 1-based position the loop is at)
RECURSIVE CutAtEos(_, _)
CutAtEos(output_ij, k) ==
    IF k > Len(output_ij) THEN output_ij
    ELSE IF output_ij[k] = Tokenizer.eos_token_id THEN SubSeq(output_ij, 1, k - 1)
    ELSE CutAtEos(output_ij, k + 1)

\* list[n:] of Python: a negative n counts from the end.
SliceFrom(list, n) ==
    LET start == IF n >= 0 THEN n
                 ELSE IF Len(list) + n > 0 THEN Len(list) + n ELSE 0
    IN  SubSeq(list, start + 1, Len(list))

\* Lines 32-39: the text of one beam.
OutputText(output_ij, position) ==
    RStrip(Decode(SliceFrom(CutAtEos(output_ij, 1), position)))

BreaksOnNegative(returns_i, prob) == prob < 0

\* if returns_i and output_probs[i, j] < 0: break
Breaks(returns_i, prob) == returns_i # <<>> /\ prob < 0

Contains(list, x) == \E n \in 1..Len(list) : list[n] = x

IsNewAlways(returns_i, output_text) == TRUE

\* output_text not in returns_i
IsNew(returns_i, output_text) == ~Contains(returns_i, output_text)

\* The loop over the beams of row i, from beam j on; acc carries returns_i, probs_i.
RECURSIVE BeamLoop(_, _, _, _, _)
BeamLoop(output_i, probs_row, position, j, acc) ==
    IF j > Len(output_i) THEN acc
    ELSE IF Breaks(acc.returns_i, probs_row[j]) THEN acc
    ELSE LET output_text == OutputText(output_i[j], position)
         IN  BeamLoop(output_i, probs_row, position, j + 1,
                 IF IsNew(acc.returns_i, output_text)
                 THEN [returns_i |-> Append(acc.returns_i, output_text),
                       probs_i   |-> Append(acc.probs_i, probs_row[j])]
                 ELSE acc)

ProcessRow(output_i, probs_row, position) ==
    BeamLoop(output_i, probs_row, position, 1, [returns_i |-> <<>>, probs_i |-> <<>>])

ProcessResults ==
    /\ pc = "start"
    /\ LET ids == Unsqueeze(output_ids)
           rows == [i \in 1..Len(ids) |->
                       ProcessRow(ids[i], output_probs[i], last_complete_word_position)]
       IN  /\ returns' = [i \in 1..Len(ids) |-> rows[i].returns_i]
           /\ returns_probs' = [i \in 1..Len(ids) |-> rows[i].probs_i]
    /\ pc' = "done"
    /\ UNCHANGED <<output_ids, output_probs, last_complete_word_position>>
    /\ UNCHANGED accum_vars
    /\ UNCHANGED grad_vars

\* Inputs of process_results.
MaxBeamsTotal == 3

MaxWordPosition == 1

\* Rows of token ids of one length: EOS (0) nowhere, second or first, and two
\* lists whose texts differ only by trailing whitespace.
TokenLists == {<<1, 0>>, <<1, 2>>, <<1, 1>>, <<0, 1>>}

Probs == {-1, 0, 1}

Shapes ==
    {s \in (0..MaxBeamsTotal) \X (0..MaxBeamsTotal) : s[1] * s[2] <= MaxBeamsTotal}

InitProcess ==
    /\ pc = "start"
    /\ \E s \in Shapes :
           /\ \/ /\ output_ids \in [dim : {3},
                                    data : [1..s[1] -> [1..s[2] -> TokenLists]]]
              \/ /\ s[2] = 1
                 /\ output_ids \in [dim : {2}, data : [1..s[1] -> TokenLists]]
           /\ output_probs \in [1..s[1] -> [1..s[2] -> Probs]]
    /\ last_complete_word_position \in 0..MaxWordPosition
    /\ returns = <<>>
    /\ returns_probs = <<>>
    /\ AccumIdle
    /\ GradIdle

NextProcess == ProcessResults

SpecProcess == InitProcess /\ [][NextProcess]_vars

(***************************************************************************)
(* Claims about build_gradient_accumulation_graph.  The expected names are  *)
(* written out, and positions are counted, independently of the loop.       *)
(***************************************************************************)
AccumulationBufferLiteral ==
    <<".","a","c","c","u","m","u","l","a","t","i","o","n",".","b","u","f","f","e","r">>

AccumulationOutLiteral ==
    <<".","a","c","c","u","m","u","l","a","t","i","o","n",".","o","u","t">>

GradLiteral == <<"_","g","r","a","d">>

LazyResetGradLiteral == <<"l","a","z","y","_","r","e","s","e","t","_","g","r","a","d">>

IsGradientName(name) ==
    \E arg \in all_args_requiring_gradient_names : name = arg \o GradLiteral

\* Positions of the gradient outputs in the graph outputs at the call.
GradientPositions ==
    {i \in 1..Len(grad_model_pre.output) : IsGradientName(grad_model_pre.output[i].name)}

\* The number of gradient outputs at positions <= i.
GradientRank(i) == Cardinality({j \in GradientPositions : j <= i})

AccumDone == pc = "done"

\* C1: exactly one InPlaceAccumulator node (domain com.microsoft) is appended
\* for every graph output named <arg>_grad, none for any other output; the node
\* of gradient G has inputs [G.accumulation.buffer, G, lazy_reset_grad] and the
\* single output G.accumulation.out; the nodes already in the graph are
\* unchanged and keep their order.
C1_AccumulatorNodes ==
    AccumDone =>
        LET old == Len(grad_model_pre.node)
        IN  /\ Len(grad_model.node) = old + Cardinality(GradientPositions)
            /\ SubSeq(grad_model.node, 1, old) = grad_model_pre.node
            /\ \A i \in GradientPositions :
                   LET G == grad_model_pre.output[i].name
                       n == grad_model.node[old + GradientRank(i)]
                   IN  /\ n.op_type = "InPlaceAccumulator"
                       /\ n.domain = "com.microsoft"
                       /\ n.input = <<G \o AccumulationBufferLiteral, G, LazyResetGradLiteral>>
                       /\ n.output = <<G \o AccumulationOutLiteral>>

C1_Witness ==
    /\ AccumDone
    /\ Cardinality(GradientPositions) >= 2
    /\ Cardinality(GradientPositions) < Len(grad_model_pre.output)
    /\ Len(grad_model_pre.node) >= 1

\* C2: the output list keeps its length; a non-gradient output stays unchanged
\* at its position; a gradient output G is replaced at its position by an
\* output named G.accumulation.out; no name <arg>_grad remains a graph output.
C2_Outputs ==
    AccumDone =>
        /\ Len(grad_model.output) = Len(grad_model_pre.output)
        /\ \A i \in 1..Len(grad_model_pre.output) :
               /\ i \notin GradientPositions =>
                      grad_model.output[i] = grad_model_pre.output[i]
               /\ i \in GradientPositions =>
                      grad_model.output[i].name =
                          grad_model_pre.output[i].name \o AccumulationOutLiteral
        /\ \A i \in 1..Len(grad_model.output) :
               ~IsGradientName(grad_model.output[i].name)

C2_Witness ==
    /\ AccumDone
    /\ \E i, j, k \in 1..Len(grad_model_pre.output) :
           /\ i < j /\ j < k
           /\ i \notin GradientPositions
           /\ j \in GradientPositions
           /\ k \notin GradientPositions

\* C3: the input list is the original input list, followed by one input named
\* G.accumulation.buffer per gradient output G in output order, followed by one
\* input named lazy_reset_grad, which is last and is appended also when the
\* graph has no gradient output.
C3_Inputs ==
    AccumDone =>
        LET old == Len(grad_model_pre.input)
            num == Cardinality(GradientPositions)
        IN  /\ Len(grad_model.input) = old + num + 1
            /\ SubSeq(grad_model.input, 1, old) = grad_model_pre.input
            /\ \A i \in GradientPositions :
                   grad_model.input[old + GradientRank(i)].name =
                       grad_model_pre.output[i].name \o AccumulationBufferLiteral
            /\ grad_model.input[old + num + 1].name = LazyResetGradLiteral

C3_Witness ==
    /\ AccumDone
    /\ Len(grad_model_pre.input) >= 1
    /\ Cardinality(GradientPositions) >= 2
    /\ \E i, j \in GradientPositions :
           grad_model_pre.output[i].name # grad_model_pre.output[j].name

(***************************************************************************)
(* Claims about build_gradient_graph.                                       *)
(***************************************************************************)
DigitLiterals == {"0","1","2","3","4","5","6","7","8","9"}

NameBeginsWithDigit(name) == name # <<>> /\ name[1] \in DigitLiterals

\* Positions, in the initializer list at the call, of the initializers that stay.
KeptPositions ==
    {i \in 1..Len(model_pre.initializer) :
         NameBeginsWithDigit(model_pre.initializer[i].name)}

MovedPositions == (1..Len(model_pre.initializer)) \ KeptPositions

KeptRank(i) == Cardinality({j \in KeptPositions : j <= i})

MovedRank(i) == Cardinality({j \in MovedPositions : j <= i})

\* C4: in the eval model, every initializer whose name does not begin with a
\* digit has left the initializer list and is a graph input, appended after the
\* inputs the graph had, one per initializer and in initializer order; the
\* initializer list is exactly the digit-prefixed initializers in their
\* original order; none is both kept and moved, none is lost.
C4_EvalModel ==
    eval_model # None =>
        LET old == Len(model_pre.input)
        IN  /\ Len(eval_model.initializer) = Cardinality(KeptPositions)
            /\ \A i \in KeptPositions :
                   eval_model.initializer[KeptRank(i)] = model_pre.initializer[i]
            /\ Len(eval_model.input) = old + Cardinality(MovedPositions)
            /\ SubSeq(eval_model.input, 1, old) = model_pre.input
            /\ \A i \in MovedPositions :
                   eval_model.input[old + MovedRank(i)].name = model_pre.initializer[i].name
            /\ Len(eval_model.initializer) + (Len(eval_model.input) - old)
                   = Len(model_pre.initializer)
            /\ \A k \in 1..Len(eval_model.initializer) :
                   NameBeginsWithDigit(eval_model.initializer[k].name)

C4_Witness ==
    /\ eval_model # None
    /\ Len(model_pre.input) >= 1
    /\ \E i, j, k \in 1..Len(model_pre.initializer) :
           /\ i < j /\ j < k
           /\ i \in MovedPositions /\ j \in KeptPositions /\ k \in MovedPositions
           /\ model_pre.initializer[i].name # model_pre.initializer[k].name

ExpectedArgsRequiringGradient ==
    {model_pre.initializer[i].name : i \in
        {j \in MovedPositions :
             model_pre.initializer[j].name \notin user_args_not_requiring_grad}}
    \cup user_args_requiring_grad

\* C5: the set returned, and passed to the gradient builder, is exactly the
\* names of the non-digit-prefixed initializers that are not in
\* user_args_not_requiring_grad, together with all of user_args_requiring_grad;
\* an initializer named in user_args_not_requiring_grad, or digit-prefixed, is
\* in it only if user_args_requiring_grad names it.
C5_ArgsRequiringGradient ==
    /\ builder_args # None => builder_args.args = ExpectedArgsRequiringGradient
    /\ pc = "done" =>
           /\ ret = ExpectedArgsRequiringGradient
           /\ builder_args # None /\ builder_args.args = ret
           /\ \A i \in 1..Len(model_pre.initializer) :
                  LET name == model_pre.initializer[i].name
                  IN  (name \in user_args_not_requiring_grad \/ NameBeginsWithDigit(name))
                      /\ name \notin user_args_requiring_grad
                          => name \notin ret

C5_Witness ==
    /\ pc = "done"
    /\ \E i, j, k \in 1..Len(model_pre.initializer) :
           LET a == model_pre.initializer[i].name
               b == model_pre.initializer[j].name
               c == model_pre.initializer[k].name
           IN  /\ a \in user_args_not_requiring_grad /\ a \in user_args_requiring_grad
               /\ b \in user_args_not_requiring_grad /\ b \notin user_args_requiring_grad
               /\ NameBeginsWithDigit(c)
               /\ a \in ret /\ b \notin ret

(***************************************************************************)
(* Claims about process_results.  The expected text of a beam is stated     *)
(* with positions, not with the loops of the code.                          *)
(***************************************************************************)
NumRows == Len(output_ids.data)

\* The beams of row i of output_ids.
BeamsOf(i) == IF output_ids.dim = 2 THEN <<output_ids.data[i]>> ELSE output_ids.data[i]

EosPositions(tokens) == {k \in 1..Len(tokens) : tokens[k] = Tokenizer.eos_token_id}

\* tokens before the first EOS, or all of them when there is none.
BeforeFirstEos(tokens) ==
    IF EosPositions(tokens) = {} THEN tokens
    ELSE SubSeq(tokens, 1,
             (CHOOSE k \in EosPositions(tokens) :
                  \A m \in EosPositions(tokens) : k <= m) - 1)

\* The text of beam j of row i: cut at the first EOS, then without its first
\* last_complete_word_position tokens, decoded and right-stripped.
BeamText(i, j) ==
    LET cut == BeforeFirstEos(BeamsOf(i)[j])
    IN  RStrip(Decode(SubSeq(cut, last_complete_word_position + 1, Len(cut))))

BeamsWithText(i, text) == {j \in 1..Len(BeamsOf(i)) : BeamText(i, j) = text}

LowestBeam(i, text) ==
    CHOOSE j \in BeamsWithText(i, text) : \A m \in BeamsWithText(i, text) : j <= m

\* C6: one result row per row of output_ids; in every row the texts are
\* pairwise distinct, the probabilities are as many as the texts, the n-th
\* probability is that of the lowest-index beam whose text is the n-th text,
\* and the texts come in increasing order of that beam index.
C6_DistinctTextsWithProbs ==
    pc = "done" =>
        /\ Len(returns) = NumRows
        /\ Len(returns_probs) = NumRows
        /\ \A i \in 1..NumRows :
               /\ Len(returns_probs[i]) = Len(returns[i])
               /\ \A n, m \in 1..Len(returns[i]) :
                      n # m => returns[i][n] # returns[i][m]
               /\ \A n \in 1..Len(returns[i]) :
                      /\ BeamsWithText(i, returns[i][n]) # {}
                      /\ returns_probs[i][n] =
                             output_probs[i][LowestBeam(i, returns[i][n])]
               /\ \A n, m \in 1..Len(returns[i]) :
                      n < m => LowestBeam(i, returns[i][n]) < LowestBeam(i, returns[i][m])

C6_Witness ==
    /\ pc = "done"
    /\ \E i \in 1..NumRows :
           /\ Len(BeamsOf(i)) = 3
           /\ BeamsOf(i)[1] # BeamsOf(i)[2]
           /\ BeamText(i, 1) = BeamText(i, 2)
           /\ BeamText(i, 3) # BeamText(i, 1)
           /\ output_probs[i][1] # output_probs[i][2]
           /\ Len(returns[i]) = 2
           /\ returns_probs[i] = <<output_probs[i][1], output_probs[i][3]>>

\* The first beam, after beam 1, whose probability is negative; one past the
\* last beam when there is none.
StopBeam(i) ==
    LET negative == {j \in 2..Len(BeamsOf(i)) : output_probs[i][j] < 0}
    IN  IF negative = {} THEN Len(BeamsOf(i)) + 1
        ELSE CHOOSE j \in negative : \A m \in negative : j <= m

\* C7: in every row, beam 1 is decoded and returned whatever the sign of its
\* probability; the scan stops at the first later beam of negative probability,
\* so every returned probability but the first is non-negative and the texts
\* returned are exactly those of the beams before that one; the text of a beam
\* is decoded from its tokens cut at the first EOS and then without the first
\* last_complete_word_position tokens.
C7_ScanStopsAtNegative ==
    pc = "done" =>
        \A i \in 1..NumRows :
            Len(BeamsOf(i)) >= 1 =>
                /\ Len(returns[i]) >= 1
                /\ returns[i][1] = BeamText(i, 1)
                /\ returns_probs[i][1] = output_probs[i][1]
                /\ \A n \in 2..Len(returns_probs[i]) : returns_probs[i][n] >= 0
                /\ {returns[i][n] : n \in 1..Len(returns[i])}
                       = {BeamText(i, j) : j \in 1..(StopBeam(i) - 1)}

C7_Witness ==
    /\ pc = "done"
    /\ last_complete_word_position >= 1
    /\ \E i \in 1..NumRows :
           /\ Len(BeamsOf(i)) = 3
           /\ output_probs[i][1] < 0
           /\ output_probs[i][2] < 0
           /\ \A n \in 1..Len(returns[i]) : returns[i][n] # BeamText(i, 3)
           /\ EosPositions(BeamsOf(i)[1]) # {}
           /\ returns[i] = <<BeamText(i, 1)>>
           /\ returns_probs[i][1] < 0

====
